---- MODULE Spec2Model ----
(***************************************************************************)
(* Agent.process_stream of src/api/agent.py: the tag-aware streaming       *)
(* token classifier.                                                       *)
(*                                                                         *)
(* A Python string is modelled as the sequence of its characters, each a   *)
(* one-character string, so that substring search, replace and strip are   *)
(* computed as Python computes them.  A chunk of the completion stream is  *)
(* its delta content; the empty sequence stands for a chunk whose content  *)
(* is None or "" (both are falsy at line 114).                             *)
(***************************************************************************)
EXTENDS Integers, Sequences, FiniteSets, TLC

VARIABLES
    thinking_model,       \* the argument of process_stream
    received,             \* history: the chunk contents pulled from the stream so far
    page_buffer,
    token_buffer,
    in_thinking_section,
    in_answer_section,
    token_queue,          \* entries [text, src]: src is the index of the chunk (history)
    events,               \* history: what the generator has yielded so far
    trace,                \* history: per chunk, the branch taken, the flags before it,
                          \* the position of its last character in the stream and
                          \* the longest token_queue was while it was processed
    pc,                   \* "streaming" (in the for loop), "done" (returned) or
                          \* "raised" (the stream raised inside the for loop)
    result,               \* the value returned (the StopIteration value)
    \* the streaming driver (event_gen of server.py) that iterates process_stream
    endpoint,             \* "story", "chat" or "regen"; "none" when no driver is modelled
    regenerate,           \* the regenerate parameter of story_stream_endpoint
    driver,               \* "idle", "iterating", "after_loop", "finished" or "failed"
    connected,            \* what request.is_disconnected() would answer, negated
    handled,              \* history: how many of the events the driver's loop has taken
    sink,                 \* history: the server-sent events event_gen has yielded
    page_tokens,          \* page_tokens / ai_tokens
    stored,               \* history: the texts handed to add_page / add_message
    \* a second invocation of process_stream, running at the same time
    other,                \* its argument, chunks, locals, events, position and value
    \* one invocation of Agent.call
    call,                 \* its arguments, loop variable, position and history
    \* the stored objects the endpoints work on
    conv,                 \* one chat_regen_stream request and its Conversation
    book,                 \* one Book, its file and the operation in progress
    prompt_files          \* the prompt files of prompts.py, with their history

driver_vars == <<endpoint, regenerate, driver, connected, handled, sink, page_tokens, stored>>

\* the state of what runs beside process_stream and its driver
store_vars == <<conv, book, prompt_files>>

rest_vars == <<other, call, conv, book, prompt_files>>

vars == <<thinking_model, received, page_buffer, token_buffer, in_thinking_section,
          in_answer_section, token_queue, events, trace, pc, result,
          endpoint, regenerate, driver, connected, handled, sink, page_tokens,
          stored, other,
          call, conv, book, prompt_files>>

(***************************************************************************)
(* Bounds of the model.                                                    *)
(***************************************************************************)
MaxFragments == 4   \* longest stream over the general fragments
MaxPre == 2         \* fragments before a split delimiter
MaxPost == 1        \* fragments after a split delimiter

(***************************************************************************)
(* The delimiter literals and the fragments the source may deliver.        *)
(***************************************************************************)
OpenThink == <<"<", "t", "h", "i", "n", "k", ">">>
CloseThink == <<"<", "/", "t", "h", "i", "n", "k", ">">>
OpenAnswer == <<"<", "a", "n", "s", "w", "e", "r", ">">>
CloseAnswer == <<"<", "/", "a", "n", "s", "w", "e", "r", ">">>

Delimiters == {OpenThink, CloseThink, OpenAnswer, CloseAnswer}

Whitespace == {" ", "\t", "\n", "\r"}

NoContent == <<>>

GeneralFragments ==
    Delimiters \cup {<<"a">>, <<" ">>, NoContent}

\* the fragments around a delimiter that arrives cut into pieces
SurroundFragments ==
    Delimiters \cup {<<"a">>}

ExampleSplit ==
    << <<"<", "t", "h", "i">>,
       <<"n", "k", ">", "s", "e", "c", "r", "e", "t">>,
       <<"<", "/", "t", "h", "i", "n", "k", ">", "h", "e", "l", "l", "o", " ">>,
       <<"w", "o", "r">>,
       <<"l", "d">> >>

ExampleDiscard ==
    << OpenThink, <<"x">>, <<"y">>, CloseThink, <<"z">> >>

ExamplePassThrough ==
    << <<"a">>, <<"b">>, <<"c">> >>

\* a close-thinking delimiter that arrives before thinking is opened
ExampleStrayClose ==
    << CloseThink, OpenThink, <<"a">>, <<"a">>, CloseThink >>

\* the start of a close-thinking delimiter, then thinking opened and the rest of it
ExampleSplice ==
    << <<"<", "/", "t", "h", "i">>, OpenThink, <<"n", "k", ">">>, <<"a">>, CloseThink >>

\* a close-thinking delimiter inside the two parts of another one
ExampleNestedClose ==
    << <<"<", "/", "t", "h", "i">>, CloseThink, <<"n", "k", ">">> >>

\* one fragment that completes two delimiters
ExampleDouble ==
    << OpenAnswer \o OpenThink, <<"a">>, <<"a">> >>

Examples ==
    {ExampleSplit, ExampleDiscard, ExamplePassThrough, ExampleStrayClose, ExampleSplice,
     ExampleNestedClose, ExampleDouble}

PieceSizes == {1, 3, 5}

\* d cut into consecutive pieces of sz characters (the last one may be shorter)
Pieces(d, sz) ==
    [i \in 1..((Len(d) + sz - 1) \div sz) |->
        SubSeq(d, (i - 1) * sz + 1, IF i * sz < Len(d) THEN i * sz ELSE Len(d))]

\* the ways the source may cut one delimiter into consecutive fragments
SplitDelimiters == {Pieces(d, sz) : d \in Delimiters, sz \in PieceSizes}

IsPrefix(s, t) == Len(s) <= Len(t) /\ SubSeq(t, 1, Len(s)) = s

AllGeneral(seq) == \A i \in DOMAIN seq : seq[i] \in GeneralFragments

\* seq starts a stream pre \o parts \o post with Len(pre) = n
StartsSplit(seq, n, parts) ==
    /\ Len(seq) <= n + Len(parts) + MaxPost
    /\ \A i \in DOMAIN seq :
          IF i > n /\ i <= n + Len(parts)
          THEN seq[i] = parts[i - n]
          ELSE seq[i] \in SurroundFragments

(***************************************************************************)
(* The chunks the source may deliver after seq.  The streams of the model  *)
(* are: every stream of at most MaxFragments general fragments; the        *)
(* examples; and every stream pre \o parts \o post where parts is a        *)
(* delimiter cut into pieces, pre and post are surrounding fragments,      *)
(* Len(pre) <= MaxPre and Len(post) <= MaxPost.  A stream may end after    *)
(* any chunk.                                                              *)
(***************************************************************************)
NextChunks(seq) ==
    LET k == Len(seq) IN
    (IF k < MaxFragments /\ AllGeneral(seq) THEN GeneralFragments ELSE {})
    \cup {e[k + 1] : e \in {x \in Examples : k < Len(x) /\ IsPrefix(seq, x)}}
    \cup UNION {
         IF k < n + Len(parts) + MaxPost /\ StartsSplit(seq, n, parts)
         THEN IF k >= n /\ k < n + Len(parts)
              THEN {parts[k - n + 1]}
              ELSE SurroundFragments
         ELSE {} : n \in 0..MaxPre, parts \in SplitDelimiters}

(***************************************************************************)
(* Python's str operations on character sequences.                         *)
(***************************************************************************)
OccursAt(s, d, p) ==
    p >= 1 /\ p + Len(d) - 1 <= Len(s) /\ SubSeq(s, p, p + Len(d) - 1) = d

\* str.find, 1-based; 0 when d does not occur
Find(s, d) ==
    LET hits == {p \in 1..Len(s) : OccursAt(s, d, p)} IN
    IF hits = {} THEN 0 ELSE CHOOSE p \in hits : \A q \in hits : p <= q

\* d in s
Contains(s, d) == Find(s, d) # 0

\* s.replace(d, "", 1)
ReplaceFirst(s, d) ==
    LET p == Find(s, d) IN
    IF p = 0 THEN s ELSE SubSeq(s, 1, p - 1) \o SubSeq(s, p + Len(d), Len(s))

\* s.replace(d, ""): one left-to-right pass over the non-overlapping occurrences
RECURSIVE ReplaceAll(_, _)
ReplaceAll(s, d) ==
    LET p == Find(s, d) IN
    IF p = 0 THEN s
    ELSE SubSeq(s, 1, p - 1) \o ReplaceAll(SubSeq(s, p + Len(d), Len(s)), d)

\* s.strip()
Strip(s) ==
    LET solid == {i \in 1..Len(s) : s[i] \notin Whitespace} IN
    IF solid = {} THEN <<>>
    ELSE SubSeq(s, CHOOSE i \in solid : \A j \in solid : i <= j,
                   CHOOSE i \in solid : \A j \in solid : i >= j)

RECURSIVE Concat(_)
Concat(ss) == IF ss = <<>> THEN <<>> ELSE Head(ss) \o Concat(Tail(ss))

(***************************************************************************)
(* Events.  ("thinking", b) is [type |-> "thinking", flag |-> b] with an   *)
(* empty text; ("token", t) is [type |-> "token", text |-> t] with flag    *)
(* FALSE.  src (the index of the chunk the event comes from) and           *)
(* thinking (in_thinking_section when the event is yielded) are history.   *)
(***************************************************************************)
ThinkingEvent(b, n, st) ==
    [type |-> "thinking", text |-> <<>>, flag |-> b, src |-> n,
     thinking |-> st.in_thinking_section]

TokenEvent(entry, st) ==
    [type |-> "token", text |-> entry.text, flag |-> FALSE, src |-> entry.src,
     thinking |-> st.in_thinking_section]

\* what the consumer sees of an event
Visible(e) == <<e.type, e.text, e.flag>>

VisibleEvents(es) == [i \in DOMAIN es |-> Visible(es[i])]

(***************************************************************************)
(* The loop body of process_stream, on the record st of its locals.  Each  *)
(* operator returns the locals after the branch, what it yielded and the   *)
(* name of the branch.                                                     *)
(***************************************************************************)
Locals ==
    [page_buffer |-> page_buffer, token_buffer |-> token_buffer,
     in_thinking_section |-> in_thinking_section,
     in_answer_section |-> in_answer_section, token_queue |-> token_queue]

InitialLocals ==
    [page_buffer |-> <<>>, token_buffer |-> <<>>, in_thinking_section |-> FALSE,
     in_answer_section |-> FALSE, token_queue |-> <<>>]

Outcome(st, yielded, how) == [st |-> st, yielded |-> yielded, how |-> how]

QueueLimit == 3

SkipChunkClearsQueue(st) == Outcome([st EXCEPT !.token_queue = <<>>], <<>>, "skip")

\* lines 114-115
SkipChunk(st) == Outcome(st, <<>>, "skip")

OpenThinkFiresAlways(st) == Contains(st.token_buffer, OpenThink)

\* line 120
OpenThinkFires(st) == Contains(st.token_buffer, OpenThink) /\ ~st.in_thinking_section

OpenThinkResetsPage(st, n) ==
    LET st2 == [st EXCEPT !.in_thinking_section = TRUE,
                          !.page_buffer = <<>>,
                          !.token_buffer = ReplaceFirst(st.token_buffer, OpenThink)]
    IN Outcome([st2 EXCEPT !.token_queue = <<>>],
               <<ThinkingEvent(TRUE, n, st2)>>, "open_think")

OpenThinkKeepsQueue(st, n) ==
    LET st2 == [st EXCEPT !.in_thinking_section = TRUE,
                          !.token_buffer = ReplaceFirst(st.token_buffer, OpenThink)]
    IN Outcome(st2, <<ThinkingEvent(TRUE, n, st2)>>, "open_think")

\* lines 121-125
OpenThinkTransition(st, n) ==
    LET st2 == [st EXCEPT !.in_thinking_section = TRUE,
                          !.token_buffer = ReplaceFirst(st.token_buffer, OpenThink)]
    IN Outcome([st2 EXCEPT !.token_queue = <<>>],
               <<ThinkingEvent(TRUE, n, st2)>>, "open_think")

\* line 127
CloseThinkFires(st) == Contains(st.token_buffer, CloseThink) /\ st.in_thinking_section

CloseThinkRemovesAll(st, n) ==
    LET st2 == [st EXCEPT !.in_thinking_section = FALSE,
                          !.token_buffer = ReplaceAll(st.token_buffer, CloseThink)]
    IN Outcome([st2 EXCEPT !.token_queue = <<>>],
               <<ThinkingEvent(FALSE, n, st2)>>, "close_think")

\* lines 128-132
CloseThinkTransition(st, n) ==
    LET st2 == [st EXCEPT !.in_thinking_section = FALSE,
                          !.token_buffer = ReplaceFirst(st.token_buffer, CloseThink)]
    IN Outcome([st2 EXCEPT !.token_queue = <<>>],
               <<ThinkingEvent(FALSE, n, st2)>>, "close_think")

\* line 134
OpenAnswerFires(st) == Contains(st.token_buffer, OpenAnswer) /\ ~st.in_answer_section

OpenAnswerSetsThinking(st) ==
    Outcome([st EXCEPT !.in_answer_section = TRUE, !.in_thinking_section = TRUE,
                       !.token_buffer = ReplaceFirst(st.token_buffer, OpenAnswer),
                       !.token_queue = <<>>],
            <<>>, "open_answer")

\* lines 135-138
OpenAnswerTransition(st) ==
    Outcome([st EXCEPT !.in_answer_section = TRUE,
                       !.token_buffer = ReplaceFirst(st.token_buffer, OpenAnswer),
                       !.token_queue = <<>>],
            <<>>, "open_answer")

\* line 140
CloseAnswerFires(st) == Contains(st.token_buffer, CloseAnswer) /\ st.in_answer_section

CloseAnswerKeepsQueue(st) ==
    Outcome([st EXCEPT !.in_answer_section = FALSE,
                       !.token_buffer = ReplaceFirst(st.token_buffer, CloseAnswer)],
            <<>>, "close_answer")

\* lines 141-144
CloseAnswerTransition(st) ==
    Outcome([st EXCEPT !.in_answer_section = FALSE,
                       !.token_buffer = ReplaceFirst(st.token_buffer, CloseAnswer),
                       !.token_queue = <<>>],
            <<>>, "close_answer")

QueueThinking(st, token, n) ==
    Outcome([st EXCEPT !.page_buffer = st.page_buffer \o token,
                       !.token_queue = Append(st.token_queue, [text |-> token, src |-> n])],
            <<>>, "queue")

\* lines 146-148
DiscardThinking(st, token, n) == Outcome(st, <<>>, "discard")

EnqueueNoDelay(st, token, n) ==
    LET st2 == [st EXCEPT !.page_buffer = st.page_buffer \o token] IN
    Outcome(st2, <<TokenEvent([text |-> token, src |-> n], st2)>>, "queue")

EnqueueOffByOne(st, token, n) ==
    LET queue == Append(st.token_queue, [text |-> token, src |-> n])
        st2 == [st EXCEPT !.page_buffer = st.page_buffer \o token]
    IN IF Len(queue) > QueueLimit
       THEN Outcome([st2 EXCEPT !.token_queue = Tail(queue)],
                    <<TokenEvent(Head(queue), st2)>>, "queue")
       ELSE Outcome([st2 EXCEPT !.token_queue = queue], <<>>, "queue")

\* lines 150-154
Enqueue(st, token, n) ==
    LET queue == Append(st.token_queue, [text |-> token, src |-> n])
        st2 == [st EXCEPT !.page_buffer = st.page_buffer \o token]
    IN IF Len(queue) >= QueueLimit
       THEN Outcome([st2 EXCEPT !.token_queue = Tail(queue)],
                    <<TokenEvent(Head(queue), st2)>>, "queue")
       ELSE Outcome([st2 EXCEPT !.token_queue = queue], <<>>, "queue")

TagAwareAnswerFirst(st, token, n) ==
    LET st1 == [st EXCEPT !.token_buffer = st.token_buffer \o token] IN
    IF OpenAnswerFires(st1) THEN OpenAnswerTransition(st1)
    ELSE IF CloseAnswerFires(st1) THEN CloseAnswerTransition(st1)
    ELSE IF OpenThinkFires(st1) THEN OpenThinkTransition(st1, n)
    ELSE IF CloseThinkFires(st1) THEN CloseThinkTransition(st1, n)
    ELSE IF st1.in_thinking_section THEN DiscardThinking(st1, token, n)
    ELSE Enqueue(st1, token, n)

\* lines 117-154
TagAware(st, token, n) ==
    LET st1 == [st EXCEPT !.token_buffer = st.token_buffer \o token] IN
    IF OpenThinkFires(st1) THEN OpenThinkTransition(st1, n)
    ELSE IF CloseThinkFires(st1) THEN CloseThinkTransition(st1, n)
    ELSE IF OpenAnswerFires(st1) THEN OpenAnswerTransition(st1)
    ELSE IF CloseAnswerFires(st1) THEN CloseAnswerTransition(st1)
    ELSE IF st1.in_thinking_section THEN DiscardThinking(st1, token, n)
    ELSE Enqueue(st1, token, n)

\* lines 155-157
PassThrough(st, token, n) ==
    LET st2 == [st EXCEPT !.page_buffer = st.page_buffer \o token] IN
    Outcome(st2, <<TokenEvent([text |-> token, src |-> n], st2)>>, "pass")

\* lines 111-157: one iteration of the for loop, on the n-th chunk
ProcessChunk(st, token, n, tagAware) ==
    IF token = NoContent THEN SkipChunk(st)
    ELSE IF tagAware THEN TagAware(st, token, n)
    ELSE PassThrough(st, token, n)

FlushQueueButLast(st) ==
    [i \in 1..(Len(st.token_queue) - 1) |-> TokenEvent(st.token_queue[i], st)]

FlushQueueClosesThinking(st) ==
    [i \in DOMAIN st.token_queue |-> TokenEvent(st.token_queue[i], st)]
        \o (IF st.in_thinking_section THEN <<ThinkingEvent(FALSE, 0, st)>> ELSE <<>>)

\* lines 159-161
FlushQueue(st) == [i \in DOMAIN st.token_queue |-> TokenEvent(st.token_queue[i], st)]

\* lines 164-166
CleanTags(text) ==
    ReplaceAll(ReplaceAll(ReplaceAll(ReplaceAll(text, OpenThink), CloseThink),
                          OpenAnswer), CloseAnswer)

ReturnValueAlwaysClean(st, tagAware) == Strip(CleanTags(st.page_buffer))

ReturnValueUntrimmed(st, tagAware) ==
    IF tagAware THEN CleanTags(st.page_buffer) ELSE st.page_buffer

\* lines 163-168
ReturnValue(st, tagAware) ==
    Strip(IF tagAware THEN CleanTags(st.page_buffer) ELSE st.page_buffer)

(***************************************************************************)
(* process_stream as a function of the whole stream: the fold of the loop  *)
(* body over the chunks, then the flush and the return.                    *)
(***************************************************************************)
RECURSIVE RunLoop(_, _, _, _, _)
RunLoop(st, es, chunks, n, tagAware) ==
    IF chunks = <<>> THEN [st |-> st, events |-> es]
    ELSE LET o == ProcessChunk(st, Head(chunks), n, tagAware)
         IN RunLoop(o.st, es \o o.yielded, Tail(chunks), n + 1, tagAware)

ProcessStream(chunks, tagAware) ==
    LET r == RunLoop(InitialLocals, <<>>, chunks, 1, tagAware) IN
    [events |-> r.events \o FlushQueue(r.st), result |-> ReturnValue(r.st, tagAware)]

(***************************************************************************)
(* The state machine.                                                      *)
(***************************************************************************)
InitClassifier ==
    /\ thinking_model \in BOOLEAN
    /\ received = <<>>
    /\ page_buffer = InitialLocals.page_buffer
    /\ token_buffer = InitialLocals.token_buffer
    /\ in_thinking_section = InitialLocals.in_thinking_section
    /\ in_answer_section = InitialLocals.in_answer_section
    /\ token_queue = InitialLocals.token_queue
    /\ events = <<>>
    /\ trace = <<>>
    /\ pc = "streaming"
    /\ result = <<>>

\* process_stream iterated by a consumer that is not modelled
DriverIdle ==
    /\ endpoint = "none"
    /\ regenerate = FALSE
    /\ driver = "idle"
    /\ connected = TRUE
    /\ handled = 0
    /\ sink = <<>>
    /\ page_tokens = <<>>
    /\ stored = <<>>

\* no second invocation
OtherIdle == other = [pc |-> "none"]

\* Agent.call not invoked
CallIdle == call = [pc |-> "idle"]

\* no request on a conversation, a book or the prompt files
StoreIdle ==
    /\ conv = [pc |-> "idle"]
    /\ book = [pc |-> "idle"]
    /\ prompt_files = [pc |-> "idle"]

RestIdle == OtherIdle /\ CallIdle /\ StoreIdle

Init == InitClassifier /\ DriverIdle /\ RestIdle

\* the stream delivers one more chunk and the loop body runs on it
Chunk(token) ==
    /\ pc = "streaming"
    /\ \E o \in {ProcessChunk(Locals, token, Len(received) + 1, thinking_model)} :
       /\ page_buffer' = o.st.page_buffer
       /\ token_buffer' = o.st.token_buffer
       /\ in_thinking_section' = o.st.in_thinking_section
       /\ in_answer_section' = o.st.in_answer_section
       /\ token_queue' = o.st.token_queue
       /\ events' = events \o o.yielded
       /\ trace' = Append(trace, [how |-> o.how,
                                  thinking_before |-> in_thinking_section,
                                  answer_before |-> in_answer_section,
                                  last |-> Len(token) +
                                      (IF trace = <<>> THEN 0 ELSE trace[Len(trace)].last),
                                  peak |-> IF o.how = "queue"
                                           THEN Len(o.st.token_queue) + Len(o.yielded)
                                           ELSE Len(token_queue)])
    /\ received' = Append(received, token)
    /\ UNCHANGED <<thinking_model, pc, result>>
    /\ UNCHANGED driver_vars
    /\ UNCHANGED rest_vars

\* the stream is exhausted: flush the queue, clean the text, return
Exhausted ==
    /\ pc = "streaming"
    /\ events' = events \o FlushQueue(Locals)
    /\ result' = ReturnValue(Locals, thinking_model)
    /\ page_buffer' = IF thinking_model THEN CleanTags(page_buffer) ELSE page_buffer
    /\ pc' = "done"
    /\ UNCHANGED <<thinking_model, received, token_buffer, in_thinking_section,
                   in_answer_section, token_queue, trace>>
    /\ UNCHANGED driver_vars
    /\ UNCHANGED rest_vars

Next ==
    \/ \E token \in NextChunks(received) : Chunk(token)
    \/ Exhausted

Spec == Init /\ [][Next]_vars

(***************************************************************************)
(* The completion source raises inside the for loop of line 111.           *)
(***************************************************************************)
classifier_vars ==
    <<thinking_model, received, page_buffer, token_buffer, in_thinking_section,
      in_answer_section, token_queue, events, trace, pc, result>>

SourceFailsLosesEvents ==
    /\ pc = "streaming"
    /\ pc' = "raised"
    /\ events' = <<>>
    /\ UNCHANGED <<thinking_model, received, page_buffer, token_buffer,
                   in_thinking_section, in_answer_section, token_queue, trace, result>>
    /\ UNCHANGED driver_vars
    /\ UNCHANGED rest_vars

\* the exception leaves the generator: nothing after the loop runs
SourceFails ==
    /\ pc = "streaming"
    /\ pc' = "raised"
    /\ UNCHANGED <<thinking_model, received, page_buffer, token_buffer,
                   in_thinking_section, in_answer_section, token_queue, events,
                   trace, result>>
    /\ UNCHANGED driver_vars
    /\ UNCHANGED rest_vars

FailingChunks(seq) == IF Len(seq) < MaxFragments THEN GeneralFragments ELSE {}

FailingNext ==
    \/ \E token \in FailingChunks(received) : Chunk(token)
    \/ Exhausted
    \/ SourceFails

SpecFailing == Init /\ [][FailingNext]_vars

(***************************************************************************)
(* The streaming driver: event_gen of story_stream_endpoint,               *)
(* chat_stream_endpoint and chat_regen_stream (src/api/server.py).  It     *)
(* iterates process_stream, so the generator runs only when the driver     *)
(* asks for the next event.                                                *)
(***************************************************************************)
Endpoints == {"story", "chat", "regen"}

\* a fragment with a character JSON escapes and a line break
QuoteNewline == <<"\"", "\n">>

DriverFragments == {OpenThink, CloseThink, <<"a">>, QuoteNewline, NoContent}

DriverChunks(seq) == IF Len(seq) < MaxFragments THEN DriverFragments ELSE {}

\* json.dumps of one character of a str
JsonEscape(c) ==
    IF c = "\"" THEN <<"\\", "\"">>
    ELSE IF c = "\\" THEN <<"\\", "\\">>
    ELSE IF c = "\n" THEN <<"\\", "n">>
    ELSE IF c = "\r" THEN <<"\\", "r">>
    ELSE IF c = "\t" THEN <<"\\", "t">>
    ELSE <<c>>

JsonDumpsRaw(text) == <<"\"">> \o text \o <<"\"">>

\* json.dumps(data) for the str data of a token event
JsonDumps(text) ==
    <<"\"">> \o Concat([i \in DOMAIN text |-> JsonEscape(text[i])]) \o <<"\"">>

\* json.dumps({'thinking': data})
ThinkingData(b) ==
    <<"{", "\"", "t", "h", "i", "n", "k", "i", "n", "g", "\"", ":", " ">>
        \o (IF b THEN <<"t", "r", "u", "e">> ELSE <<"f", "a", "l", "s", "e">>)
        \o <<"}">>

\* a server-sent event: "event: name\ndata: data\n\n" ("message" when unnamed)
SinkEvent(name, data) == [event |-> name, data |-> data]

\* server.py lines 315, 633, 691; the payload is not modelled
FinalEvent(ep) ==
    SinkEvent(IF ep = "story" THEN "choices" ELSE "done", <<>>)

InitDriver ==
    /\ InitClassifier
    /\ endpoint \in Endpoints
    /\ regenerate \in (IF endpoint = "story" THEN BOOLEAN ELSE {FALSE})
    /\ driver = "iterating"
    /\ connected = TRUE
    /\ handled = 0
    /\ sink = <<>>
    /\ page_tokens = <<>>
    /\ stored = <<>>
    /\ RestIdle

\* the for statement asks the generator for its next event
Resume == driver = "iterating" /\ handled = Len(events)

\* the client goes away
Disconnect ==
    /\ driver = "iterating"
    /\ connected
    /\ connected' = FALSE
    /\ UNCHANGED <<endpoint, regenerate, driver, handled, sink, page_tokens, stored>>
    /\ UNCHANGED classifier_vars
    /\ UNCHANGED rest_vars

\* one pass of the loop body: server.py lines 291-298, 623-630, 681-687
Receive ==
    /\ driver = "iterating"
    /\ handled < Len(events)
    /\ LET e == events[handled + 1] IN
       IF ~connected
       THEN /\ driver' = "after_loop"
            /\ UNCHANGED <<handled, sink, page_tokens>>
       ELSE /\ driver' = driver
            /\ handled' = handled + 1
            /\ IF e.type = "thinking"
               THEN /\ sink' = Append(sink, SinkEvent("thinking", ThinkingData(e.flag)))
                    /\ UNCHANGED page_tokens
               ELSE /\ page_tokens' = Append(page_tokens, e.text)
                    /\ sink' = Append(sink, SinkEvent("message", JsonDumps(e.text)))
    /\ UNCHANGED <<endpoint, regenerate, connected, stored>>
    /\ UNCHANGED classifier_vars
    /\ UNCHANGED rest_vars

\* the generator returned: the for loop ends
LoopEnds ==
    /\ Resume
    /\ pc = "done"
    /\ driver' = "after_loop"
    /\ UNCHANGED <<endpoint, regenerate, connected, handled, sink, page_tokens, stored>>
    /\ UNCHANGED classifier_vars
    /\ UNCHANGED rest_vars

\* the generator raised: event_gen has no try statement, the exception
\* leaves it and nothing after the loop runs
Propagate ==
    /\ Resume
    /\ pc = "raised"
    /\ driver' = "failed"
    /\ UNCHANGED <<endpoint, regenerate, connected, handled, sink, page_tokens, stored>>
    /\ UNCHANGED classifier_vars
    /\ UNCHANGED rest_vars

\* after the loop: server.py lines 300-315, 631-633, 688-691
Persist ==
    /\ driver = "after_loop"
    /\ ~(endpoint = "story" /\ regenerate)
    /\ stored' = Append(stored, Strip(Concat(page_tokens)))
    /\ sink' = Append(sink, FinalEvent(endpoint))
    /\ driver' = "finished"
    /\ UNCHANGED <<endpoint, regenerate, connected, handled, page_tokens>>
    /\ UNCHANGED classifier_vars
    /\ UNCHANGED rest_vars

\* story only: the page is saved with placeholder choices (server.py lines
\* 300-307), then _generate_choices raises at line 310 (its Agent.call at line
\* 261 is not guarded) and the exception leaves event_gen
ChoicesFail ==
    /\ driver = "after_loop"
    /\ endpoint = "story"
    /\ ~regenerate
    /\ stored' = Append(stored, Strip(Concat(page_tokens)))
    /\ driver' = "failed"
    /\ UNCHANGED <<endpoint, regenerate, connected, handled, sink, page_tokens>>
    /\ UNCHANGED classifier_vars
    /\ UNCHANGED rest_vars

\* story with regenerate true: `book.pages` at server.py line 304 raises
\* AttributeError (Book has no such attribute) before anything is saved
RegenerateFails ==
    /\ driver = "after_loop"
    /\ endpoint = "story"
    /\ regenerate
    /\ driver' = "failed"
    /\ UNCHANGED <<endpoint, regenerate, connected, handled, sink, page_tokens, stored>>
    /\ UNCHANGED classifier_vars
    /\ UNCHANGED rest_vars

DriverNext ==
    \/ \E token \in DriverChunks(received) : Resume /\ Chunk(token)
    \/ Resume /\ Exhausted
    \/ Resume /\ SourceFails
    \/ Disconnect
    \/ Receive
    \/ LoopEnds
    \/ Propagate
    \/ Persist
    \/ ChoicesFail
    \/ RegenerateFails

SpecDriver == InitDriver /\ [][DriverNext]_vars

(***************************************************************************)
(* Two invocations of process_stream whose steps interleave (two requests  *)
(* served at the same time).  The first one is the state machine above,    *)
(* the second one lives in the record `other`.  The locals of lines        *)
(* 104-109 are local variables of the generator, so each has its own.      *)
(***************************************************************************)
MaxInterleaved == 2   \* longest stream of each of the two invocations

InterleavedFragments == {OpenThink, CloseThink, <<"a">>}

InterleavedChunks(seq) ==
    IF Len(seq) < MaxInterleaved THEN InterleavedFragments ELSE {}

SharedQueue == [other.st EXCEPT !.token_queue = token_queue]

\* the locals the second invocation works on: its own
OwnLocals == other.st

InitTwo ==
    /\ InitClassifier
    /\ DriverIdle
    /\ CallIdle
    /\ StoreIdle
    /\ \E tagAware \in BOOLEAN :
          other = [thinking_model |-> tagAware, received |-> <<>>,
                   st |-> InitialLocals, events |-> <<>>, pc |-> "streaming",
                   result |-> <<>>]

\* the loop body of the second invocation
OtherChunk(token) ==
    /\ other.pc = "streaming"
    /\ \E o \in {ProcessChunk(OwnLocals, token, Len(other.received) + 1,
                              other.thinking_model)} :
          other' = [other EXCEPT !.st = o.st,
                                 !.events = other.events \o o.yielded,
                                 !.received = Append(other.received, token)]
    /\ UNCHANGED classifier_vars
    /\ UNCHANGED driver_vars
    /\ UNCHANGED call
    /\ UNCHANGED store_vars

\* lines 159-168 of the second invocation
OtherExhausted ==
    /\ other.pc = "streaming"
    /\ other' = [other EXCEPT
                    !.events = other.events \o FlushQueue(OwnLocals),
                    !.result = ReturnValue(OwnLocals, other.thinking_model),
                    !.st = [OwnLocals EXCEPT !.page_buffer =
                               IF other.thinking_model
                               THEN CleanTags(OwnLocals.page_buffer)
                               ELSE OwnLocals.page_buffer],
                    !.pc = "done"]
    /\ UNCHANGED classifier_vars
    /\ UNCHANGED driver_vars
    /\ UNCHANGED call
    /\ UNCHANGED store_vars

TwoNext ==
    \/ \E token \in InterleavedChunks(received) : Chunk(token)
    \/ Exhausted
    \/ \E token \in InterleavedChunks(other.received) : OtherChunk(token)
    \/ OtherExhausted

SpecTwo == InitTwo /\ [][TwoNext]_vars

(***************************************************************************)
(* Agent.call (src/api/agent.py lines 11-52): up to max_retries attempts   *)
(* at a non-streaming completion.  An attempt ends in one of three ways:   *)
(* the completion succeeds with content that parses as JSON, it raises, or *)
(* it succeeds with content that does not parse as JSON.                   *)
(***************************************************************************)
MaxRetries == 4   \* largest max_retries

Outcomes == {"success", "exception", "bad_json"}

\* who calls Agent.call: call_llm (server.py line 96), generate_enhanced_summary
\* (line 135), or a caller that lets the exception propagate
Callers == {"call_llm", "generate_enhanced_summary", "none"}

\* max_retries=3 at server.py lines 96 and 135
CallerRetries == 3

MaxPages == 4

PageTexts == {<<"a">>, <<"b">>}

\* book.get_page_texts() when it is not empty (server.py lines 125-127)
Books == UNION {[1..n -> PageTexts] : n \in 1..MaxPages}

\* the arguments each caller passes: both server functions build the Agent
\* with json_output=True and call it with max_retries=3
CallInputs ==
    {[caller |-> "none", max_retries |-> m, json_output |-> j, page_texts |-> <<>>] :
        m \in {-1} \cup 0..MaxRetries, j \in BOOLEAN}
    \cup {[caller |-> "call_llm", max_retries |-> CallerRetries, json_output |-> TRUE,
           page_texts |-> <<>>]}
    \cup {[caller |-> "generate_enhanced_summary", max_retries |-> CallerRetries,
           json_output |-> TRUE, page_texts |-> b] : b \in Books}

InitCall ==
    /\ InitClassifier
    /\ DriverIdle
    /\ OtherIdle
    /\ StoreIdle
    /\ \E in \in CallInputs :
          call = [caller |-> in.caller, page_texts |-> in.page_texts,
                  max_retries |-> in.max_retries, json_output |-> in.json_output,
                  attempt |-> 0, pc |-> "loop", last_exception |-> "none",
                  outcomes |-> <<>>, response |-> [kind |-> "pending"]]

\* the attempt fails when the completion raises, or when json_output is set
\* and the content does not parse (lines 32-41, 43)
Fails(outcome, json_output) ==
    outcome = "exception" \/ (outcome = "bad_json" /\ json_output)

CallAttemptAlwaysContinues(outcome) ==
    /\ call.pc = "loop"
    /\ call.attempt < call.max_retries
    /\ call' = IF Fails(outcome, call.json_output)
               THEN [call EXCEPT !.outcomes = Append(@, outcome),
                                 !.last_exception = outcome,
                                 !.attempt = @ + 1]
               ELSE [call EXCEPT !.outcomes = Append(@, outcome),
                                 !.pc = "returned"]
    /\ UNCHANGED classifier_vars
    /\ UNCHANGED driver_vars
    /\ UNCHANGED other
    /\ UNCHANGED store_vars

CallAttemptReturnsUnparsed(outcome) ==
    /\ call.pc = "loop"
    /\ call.attempt < call.max_retries
    /\ call' = IF outcome = "exception"
               THEN IF call.attempt < call.max_retries - 1
                    THEN [call EXCEPT !.outcomes = Append(@, outcome),
                                      !.last_exception = outcome,
                                      !.attempt = @ + 1]
                    ELSE [call EXCEPT !.outcomes = Append(@, outcome),
                                      !.last_exception = outcome,
                                      !.pc = "raised"]
               ELSE [call EXCEPT !.outcomes = Append(@, outcome),
                                 !.pc = "returned"]
    /\ UNCHANGED classifier_vars
    /\ UNCHANGED driver_vars
    /\ UNCHANGED other
    /\ UNCHANGED store_vars

\* one iteration of the for loop, lines 20-49
CallAttempt(outcome) ==
    /\ call.pc = "loop"
    /\ call.attempt < call.max_retries
    /\ call' = IF Fails(outcome, call.json_output)
               THEN IF call.attempt < call.max_retries - 1
                    THEN [call EXCEPT !.outcomes = Append(@, outcome),
                                      !.last_exception = outcome,
                                      !.attempt = @ + 1]
                    ELSE [call EXCEPT !.outcomes = Append(@, outcome),
                                      !.last_exception = outcome,
                                      !.pc = "raised"]
               ELSE [call EXCEPT !.outcomes = Append(@, outcome),
                                 !.pc = "returned"]
    /\ UNCHANGED classifier_vars
    /\ UNCHANGED driver_vars
    /\ UNCHANGED other
    /\ UNCHANGED store_vars

\* range(max_retries) is used up: the raise of line 52
LoopFallsThrough ==
    /\ call.pc = "loop"
    /\ call.attempt >= call.max_retries
    /\ call' = [call EXCEPT !.pc = "after_loop"]
    /\ UNCHANGED classifier_vars
    /\ UNCHANGED driver_vars
    /\ UNCHANGED other
    /\ UNCHANGED store_vars

\* "\n".join(lines)
RECURSIVE JoinLines(_)
JoinLines(lines) ==
    IF lines = <<>> THEN <<>>
    ELSE IF Len(lines) = 1 THEN lines[1]
    ELSE lines[1] \o <<"\n">> \o JoinLines(Tail(lines))

\* page_texts[-3:]
LastThree(page_texts) ==
    SubSeq(page_texts, IF Len(page_texts) > 3 THEN Len(page_texts) - 2 ELSE 1,
           Len(page_texts))

FirstThree(page_texts) ==
    SubSeq(page_texts, 1, IF Len(page_texts) > 3 THEN 3 ELSE Len(page_texts))

\* server.py lines 140-144
FallbackSummary(page_texts) ==
    [kind |-> "result", summary |-> JoinLines(LastThree(page_texts)),
     key_events |-> <<>>, characters |-> <<>>]

HandledFallbackOldest ==
    /\ call.pc \in {"returned", "raised", "after_loop"}
    /\ call.response.kind = "pending"
    /\ call' = [call EXCEPT !.response =
                   IF call.pc = "returned" THEN [kind |-> "result"]
                   ELSE IF call.caller = "call_llm" THEN [kind |-> "http_500"]
                   ELSE IF call.caller = "generate_enhanced_summary"
                        THEN [kind |-> "result",
                              summary |-> JoinLines(FirstThree(call.page_texts)),
                              key_events |-> <<>>, characters |-> <<>>]
                   ELSE [kind |-> "exception"]]
    /\ UNCHANGED classifier_vars
    /\ UNCHANGED driver_vars
    /\ UNCHANGED other
    /\ UNCHANGED store_vars

\* what the caller makes of the end of Agent.call: the value returned
\* (server.py lines 96, 135-136), HTTP 500 (lines 97-99), the fallback summary
\* (lines 137-144), or the exception itself where nothing catches it
Handled ==
    /\ call.pc \in {"returned", "raised", "after_loop"}
    /\ call.response.kind = "pending"
    /\ call' = [call EXCEPT !.response =
                   IF call.pc = "returned" THEN [kind |-> "result"]
                   ELSE IF call.caller = "call_llm" THEN [kind |-> "http_500"]
                   ELSE IF call.caller = "generate_enhanced_summary"
                        THEN FallbackSummary(call.page_texts)
                   ELSE [kind |-> "exception"]]
    /\ UNCHANGED classifier_vars
    /\ UNCHANGED driver_vars
    /\ UNCHANGED other
    /\ UNCHANGED store_vars

CallNext ==
    \/ \E outcome \in Outcomes : CallAttempt(outcome)
    \/ LoopFallsThrough
    \/ Handled

SpecCall == InitCall /\ [][CallNext]_vars

TypeOK ==
    /\ thinking_model \in BOOLEAN
    /\ pc \in {"streaming", "done", "raised"}
    /\ in_thinking_section \in BOOLEAN
    /\ in_answer_section \in BOOLEAN
    /\ Len(trace) = Len(received)
    /\ Len(token_queue) < QueueLimit

\* the step-by-step run and the fold agree
RunIsProcessStream ==
    pc = "done" =>
        LET r == ProcessStream(received, thinking_model) IN
        /\ r.events = events
        /\ r.result = result

(***************************************************************************)
(* Vocabulary of the properties.                                           *)
(***************************************************************************)
IsToken(e) == e.type = "token"
IsThinking(e) == e.type = "thinking"

TokenEvents == SelectSeq(events, IsToken)
ThinkingEvents == SelectSeq(events, IsThinking)

\* the chunks whose text was yielded as a token
EmittedChunks == {events[i].src : i \in {j \in DOMAIN events : IsToken(events[j])}}

\* the chunks whose text was appended to page_buffer
PageChunks == {i \in DOMAIN trace : trace[i].how \in {"queue", "pass"}}

Texts(es) == [i \in DOMAIN es |-> es[i].text]

\* the texts of the chunks of seq whose index is in keep, in order
RECURSIVE TextOf(_, _, _)
TextOf(seq, keep, i) ==
    IF i > Len(seq) THEN <<>>
    ELSE (IF i \in keep THEN seq[i] ELSE <<>>) \o TextOf(seq, keep, i + 1)

\* ---------------------------------------------------------------- C1
\* C1: in tag-aware mode a token is yielded only for a chunk that was
\* processed while in_thinking_section was false, no token is yielded while
\* in_thinking_section is true, and page_buffer is made of the chunks that
\* were queued, none of which was processed in thinking mode.
ThinkingNeverEmitted ==
    thinking_model =>
        /\ \A i \in DOMAIN events :
              IsToken(events[i]) =>
                  /\ ~events[i].thinking
                  /\ ~trace[events[i].src].thinking_before
        /\ \A i \in PageChunks : ~trace[i].thinking_before
        /\ pc = "streaming" => page_buffer = TextOf(received, PageChunks, 1)

\* a finished tag-aware run that discarded a chunk in thinking mode and yielded a later one
ThinkingNeverEmittedWitness ==
    /\ thinking_model
    /\ pc = "done"
    /\ \E i \in DOMAIN trace, j \in EmittedChunks :
          trace[i].how = "discard" /\ i < j

\* ---------------------------------------------------------------- C5
\* C5 as stated: in_thinking_section and in_answer_section are never both true.
ModesExclusive == ~(in_thinking_section /\ in_answer_section)

\* C5 amended: both flags start false, and they are both true only after an
\* open delimiter of one kind was acted on while the other section was open.
ModesExclusiveUnlessNested ==
    /\ received = <<>> => ~in_thinking_section /\ ~in_answer_section
    /\ in_thinking_section /\ in_answer_section =>
          \E i \in DOMAIN trace :
              \/ trace[i].how = "open_answer" /\ trace[i].thinking_before
              \/ trace[i].how = "open_think" /\ trace[i].answer_before

\* both sections open
ModesExclusiveWitness ==
    /\ in_thinking_section /\ in_answer_section
    /\ Len(received) >= 3

\* ---------------------------------------------------------------- C6
\* C6: the thinking events alternate True, False, True, ... starting with
\* True; True is yielded only when in_thinking_section was false and False
\* only when it was true.
ThinkingAlternates ==
    /\ \A k \in DOMAIN ThinkingEvents : ThinkingEvents[k].flag = (k % 2 = 1)
    /\ \A i \in DOMAIN events :
          IsThinking(events[i]) =>
              trace[events[i].src].thinking_before = ~events[i].flag

\* thinking went on, off and on again
ThinkingAlternatesWitness ==
    Len(ThinkingEvents) >= 3

(***************************************************************************)
(* Delimiters in the text of the stream (the concatenation of the chunks). *)
(***************************************************************************)
StreamText == Concat(received)

\* the position in StreamText of the last character of chunk i
EndOf(i) == IF i = 0 THEN 0 ELSE trace[i].last

\* the occurrences <<p, d>> of a delimiter d at position p of StreamText
OccurrencesIn(text) ==
    {o \in {p \in 1..Len(text) : text[p] = "<"} \X Delimiters :
        OccursAt(text, o[2], o[1])}

Occurrences == UNION {OccurrencesIn(text) : text \in {StreamText}}

LastOf(o) == o[1] + Len(o[2]) - 1

\* the chunk that holds the character at position p of StreamText
ChunkAt(p) == CHOOSE i \in DOMAIN received : EndOf(i - 1) < p /\ p <= EndOf(i)

\* the chunk that holds the last character of the occurrence o
Completes(o) == ChunkAt(LastOf(o))

\* the chunks that hold at least one character of the occurrence o
Carriers(o) ==
    {i \in ChunkAt(o[1])..Completes(o) : received[i] # NoContent}

\* the delimiters of a text, in order
RECURSIVE TagSeq(_, _)
TagSeq(text, p) ==
    IF p > Len(text) THEN <<>>
    ELSE LET here == {d \in Delimiters : OccursAt(text, d, p)} IN
         IF here = {} THEN TagSeq(text, p + 1)
         ELSE LET d == CHOOSE x \in here : TRUE IN <<d>> \o TagSeq(text, p + Len(d))

\* every delimiter of the text is an open followed by its close, pairs not nested
Balanced(text) ==
    LET tags == TagSeq(text, 1) IN
    /\ Len(tags) % 2 = 0
    /\ \A k \in DOMAIN tags :
          k % 2 = 1 =>
              \/ tags[k] = OpenThink /\ tags[k + 1] = CloseThink
              \/ tags[k] = OpenAnswer /\ tags[k + 1] = CloseAnswer

\* ---------------------------------------------------------------- C2
\* C2: in tag-aware mode, when the text of the stream holds well-formed
\* open/close pairs, no chunk that holds part of a delimiter occurrence is
\* yielded as a token.
NoDelimiterLeak ==
    thinking_model /\ Balanced(StreamText) /\ TagSeq(StreamText, 1) # <<>> =>
        \A o \in Occurrences : Carriers(o) \cap EmittedChunks = {}

\* ---------------------------------------------------------------- C3
\* C3: in tag-aware mode with balanced tags, once the stream is exhausted the
\* concatenation of the token texts, trimmed, is the value returned.
TokensAreResult ==
    pc = "done" /\ thinking_model /\ Balanced(StreamText) =>
        Strip(Concat(Texts(TokenEvents))) = result

\* ---------------------------------------------------------------- C4
\* C4: in tag-aware mode, a delimiter fed one character per fragment yields
\* the same thinking and token events and the same returned value as the
\* same stream with the delimiter in a single fragment.
SplitTagRobust ==
    pc = "done" /\ thinking_model =>
        \A n \in 0..MaxPre, d \in Delimiters :
            LET parts == Pieces(d, 1) IN
            Len(received) >= n + Len(parts) /\ StartsSplit(received, n, parts) =>
                LET whole == SubSeq(received, 1, n) \o <<d>>
                             \o SubSeq(received, n + Len(parts) + 1, Len(received))
                    r == ProcessStream(whole, TRUE)
                IN /\ VisibleEvents(r.events) = VisibleEvents(events)
                   /\ r.result = result

\* ---------------------------------------------------------------- C7
Thinking(b) == <<"thinking", <<>>, b>>
Token(text) == <<"token", text, FALSE>>

\* C7: the stream "<thi", "nk>secret", "</think>hello ", "wor", "ld" yields
\* thinking True, thinking False, then the tokens "hello ", "wor", "ld", and
\* returns "hello world".
ExampleSplitAsDocumented ==
    pc = "done" /\ thinking_model /\ received = ExampleSplit =>
        /\ VisibleEvents(events) =
              << Thinking(TRUE), Thinking(FALSE),
                 Token(<<"h", "e", "l", "l", "o", " ">>),
                 Token(<<"w", "o", "r">>), Token(<<"l", "d">>) >>
        /\ result = <<"h", "e", "l", "l", "o", " ", "w", "o", "r", "l", "d">>

\* ---------------------------------------------------------------- C8
\* the first close-thinking delimiter after the open-thinking occurrence o
MatchingClose(o) ==
    {c \in Occurrences :
        /\ c[2] = CloseThink /\ c[1] > LastOf(o)
        /\ \A c2 \in Occurrences :
              c2[2] = CloseThink /\ c2[1] > LastOf(o) => c2[1] >= c[1]}

\* C8: in tag-aware mode every chunk that arrives after the chunk completing
\* an open-thinking delimiter and before the chunk completing the matching
\* close-thinking delimiter is neither queued, nor yielded, nor added to
\* page_buffer; "<think>", "x", "y", "</think>", "z" yields the token "z"
\* only and returns "z".
ThinkingSpanDiscarded ==
    thinking_model =>
        /\ \A o \in Occurrences :
              o[2] = OpenThink =>
                  \A c \in MatchingClose(o) :
                      \A j \in DOMAIN received :
                          Completes(o) < j /\ j < Completes(c) =>
                              j \notin PageChunks /\ j \notin EmittedChunks
        /\ pc = "done" /\ received = ExampleDiscard =>
              /\ VisibleEvents(TokenEvents) = <<Token(<<"z">>)>>
              /\ result = <<"z">>

\* ---------------------------------------------------------------- C9
HasContent(token) == token # NoContent

\* what pass-through mode does, but for the value returned
PassThroughEvents ==
    ~thinking_model =>
        /\ VisibleEvents(events) =
              [i \in DOMAIN SelectSeq(received, HasContent) |->
                  Token(SelectSeq(received, HasContent)[i])]
        /\ \A i \in DOMAIN trace : trace[i].how \in {"pass", "skip"}
        /\ ~in_thinking_section /\ ~in_answer_section /\ token_buffer = <<>>
        /\ token_queue = <<>>
        /\ pc = "done" /\ received = ExamplePassThrough =>
              result = <<"a", "b", "c">>

\* C9 as stated: with thinking_model false every fragment is yielded at once
\* as one token, unchanged and in order, nothing else is yielded, no tag is
\* detected or removed, and the value returned is the concatenation of the
\* fragments.
PassThroughReturnsConcatenation ==
    /\ PassThroughEvents
    /\ ~thinking_model /\ pc = "done" => result = StreamText

\* C9 amended: ... and the value returned is the concatenation of the
\* fragments with the whitespace at both ends removed.
PassThroughReturnsStripped ==
    /\ PassThroughEvents
    /\ ~thinking_model /\ pc = "done" => result = Strip(StreamText)

\* a pass-through run whose text starts with a blank and holds a delimiter
PassThroughWitness ==
    /\ ~thinking_model /\ pc = "done"
    /\ Len(received) >= 3
    /\ received[1] = <<" ">>
    /\ Contains(result, OpenThink)
    /\ result # StreamText

\* ---------------------------------------------------------------- C10
\* the branch that acts on delimiter d
TransitionOf(d) ==
    CASE d = OpenThink -> "open_think"
      [] d = CloseThink -> "close_think"
      [] d = OpenAnswer -> "open_answer"
      [] d = CloseAnswer -> "close_answer"

\* a delimiter held by at most 2 chunks whose completion fires its transition
CaughtSplit(o) ==
    /\ Cardinality(Carriers(o)) <= 2
    /\ trace[Completes(o)].how = TransitionOf(o[2])

\* C10: in tag-aware mode, when a delimiter that fires its transition on
\* completion is held by at most 2 consecutive chunks, none of them is
\* yielded as a token, whatever the queue held before.
DelayCatchesSplit ==
    thinking_model =>
        LET emitted == EmittedChunks IN
        \A o \in Occurrences :
            CaughtSplit(o) => Carriers(o) \cap emitted = {}

\* a delimiter cut in two arrives when the queue holds two tokens, the older
\* of which is yielded when the first half is queued
DelayCatchesSplitWitness ==
    /\ thinking_model /\ pc = "done"
    /\ \E o \in Occurrences :
          /\ CaughtSplit(o)
          /\ Cardinality(Carriers(o)) = 2
          /\ \E f \in Carriers(o) :
                /\ f = Completes(o) - 1 /\ f >= 3
                /\ trace[f].how = "queue"
                /\ trace[f - 1].how = "queue" /\ trace[f - 2].how = "queue"
                /\ f - 2 \in EmittedChunks

\* ---------------------------------------------------------------- C11
IsTransition(i) ==
    trace[i].how \in {"open_think", "close_think", "open_answer", "close_answer"}

\* no transition was acted on from chunk i to chunk k
NoTransitionBetween(i, k) == \A m \in i..k : ~IsTransition(m)

\* the token events are a subsequence of the fragments: each is the
\* unmodified text of one fragment, in arrival order, none twice
TokensAreSubsequence ==
    LET tokens == TokenEvents IN
    /\ \A i \in DOMAIN tokens :
          /\ tokens[i].src \in DOMAIN received
          /\ tokens[i].text = received[tokens[i].src]
    /\ \A i, j \in DOMAIN tokens : i < j => tokens[i].src < tokens[j].src

\* C11: the token events are a subsequence of the fragments in arrival
\* order (each token is the unmodified text of one fragment, no fragment is
\* yielded twice, arrival order is kept), and a queued fragment has been
\* yielded by the time the second following fragment is queued.
TokensInArrivalOrder ==
    LET emitted == EmittedChunks
        queued == {i \in DOMAIN trace : trace[i].how = "queue"}
    IN /\ TokensAreSubsequence
       /\ \A i \in DOMAIN trace : trace[i].how = "pass" => i \in emitted
       /\ \A i, j, k \in queued : i < j /\ j < k => i \in emitted

\* ---------------------------------------------------------------- C12
\* C12: token_queue never holds more than 3 entries, and at most 2 once a
\* fragment has been fully processed.
QueueBounded ==
    /\ Len(token_queue) <= 2
    /\ \A i \in DOMAIN trace : trace[i].peak <= 3

\* the queue reached 3 entries while a fragment was processed
QueueBoundedWitness ==
    /\ Len(token_queue) = 2
    /\ \E i \in DOMAIN trace : trace[i].peak = 3

\* ---------------------------------------------------------------- C13
\* C13: at exhaustion the tokens still in token_queue are yielded in FIFO
\* order before the return, so every fragment queued after the last
\* transition has been yielded, and a tag-free stream of 1 or 2 fragments
\* has all its fragments yielded.
FlushEmitsQueue ==
    pc = "done" =>
        LET n == Len(events) - Len(token_queue) IN
        /\ n >= 0
        /\ \A i \in DOMAIN token_queue :
              /\ IsToken(events[n + i])
              /\ events[n + i].text = token_queue[i].text
              /\ events[n + i].src = token_queue[i].src
        /\ \A i \in DOMAIN trace :
              trace[i].how = "queue" /\ NoTransitionBetween(i, Len(trace))
                  => i \in EmittedChunks
        /\ (/\ Len(received) \in {1, 2}
            /\ \A i \in DOMAIN received : HasContent(received[i])
            /\ TagSeq(StreamText, 1) = <<>>)
              => Texts(TokenEvents) = received

\* a finished tag-aware run that flushed two tokens after a transition
FlushEmitsQueueWitness ==
    /\ thinking_model /\ pc = "done"
    /\ Len(token_queue) = 2
    /\ \E i \in DOMAIN trace : IsTransition(i)

\* ---------------------------------------------------------------- C14
\* C14: in tag-aware mode the value returned contains none of the four
\* delimiters and has no leading or trailing whitespace.
TerminalValueClean ==
    pc = "done" /\ thinking_model =>
        /\ \A d \in Delimiters : ~Contains(result, d)
        /\ result # <<>> => /\ result[1] \notin Whitespace
                            /\ result[Len(result)] \notin Whitespace

\* ---------------------------------------------------------------- C15
LongestDelimiter ==
    CHOOSE n \in {Len(d) : d \in Delimiters} : \A d \in Delimiters : Len(d) <= n

\* C15: once a fragment has been classified, token_buffer is shorter than
\* the longest delimiter.
TagBufferBounded == Len(token_buffer) <= LongestDelimiter - 1

\* ---------------------------------------------------------------- C16
\* C16: processing a fragment only appends to page_buffer, and leaves it
\* unchanged when the fragment is a transition or is received in thinking
\* mode.
PageBufferOnlyGrows ==
    [][received' # received =>
          /\ IsPrefix(page_buffer, page_buffer')
          /\ (in_thinking_section \/ in_thinking_section' # in_thinking_section
                                  \/ in_answer_section' # in_answer_section)
                => page_buffer' = page_buffer]_vars

\* text was appended, then a transition and a fragment in thinking mode
\* left it in place
PageBufferOnlyGrowsWitness ==
    /\ page_buffer # <<>>
    /\ \E i \in DOMAIN trace :
          /\ i + 2 <= Len(trace)
          /\ trace[i].how = "queue"
          /\ trace[i + 1].how = "open_think"
          /\ trace[i + 2].how = "discard"

\* ---------------------------------------------------------------- C17
\* C17: in tag-aware mode, while the text received contains no delimiter,
\* both flags are false and no thinking event is yielded; at exhaustion
\* every fragment has been yielded exactly once, in order, and the value
\* returned is the trimmed concatenation of the fragments.
DelimiterFreeStream ==
    thinking_model /\ Occurrences = {} =>
        /\ ~in_thinking_section /\ ~in_answer_section
        /\ ThinkingEvents = <<>>
        /\ \A i \in DOMAIN trace : trace[i].how \in {"queue", "skip"}
        /\ pc = "done" =>
              /\ Texts(events) = SelectSeq(received, HasContent)
              /\ \A i, j \in DOMAIN events : i < j => events[i].src < events[j].src
              /\ result = Strip(StreamText)

\* a finished delimiter-free run of four fragments with whitespace to trim
DelimiterFreeStreamWitness ==
    /\ thinking_model /\ pc = "done" /\ Occurrences = {}
    /\ Len(events) = MaxFragments
    /\ result # StreamText

\* ---------------------------------------------------------------- C20
\* C20: when the source is exhausted while thinking or an answer is still
\* open, the run returns and the exhaustion yields nothing but the queued
\* tokens: every thinking event comes from a transition, and if thinking is
\* open the last thinking event is thinking True.
OpenAtExhaustion ==
    pc = "done" /\ (in_thinking_section \/ in_answer_section) =>
        LET thinkings == ThinkingEvents IN
        /\ result = ReturnValue(Locals, thinking_model)
        /\ \A i \in DOMAIN thinkings :
              /\ thinkings[i].src \in DOMAIN trace
              /\ trace[thinkings[i].src].how \in {"open_think", "close_think"}
        /\ \A i, j \in DOMAIN thinkings : i < j => thinkings[i].src < thinkings[j].src
        /\ Len(TokenEvents) = Cardinality(EmittedChunks)
        /\ in_thinking_section =>
              /\ thinkings # <<>>
              /\ thinkings[Len(thinkings)].flag = TRUE

\* the source ran dry in thinking mode
OpenAtExhaustionWitness ==
    /\ pc = "done" /\ in_thinking_section /\ ~in_answer_section
    /\ Len(ThinkingEvents) = 3

\* ---------------------------------------------------------------- C18
\* C18: when the source raises after some fragments, every event those
\* fragments give rise to has been yielded, except the tokens still inside
\* the delay queue (fewer than QueueLimit, the latest queued), and no event
\* stems from a fragment that was not received.
FailureWithholdsNothing ==
    pc = "raised" =>
        LET emitted == EmittedChunks
            held == {token_queue[q].src : q \in DOMAIN token_queue}
            queued == {i \in DOMAIN trace : trace[i].how = "queue"}
        IN /\ events = RunLoop(InitialLocals, <<>>, received, 1, thinking_model).events
           /\ \A i \in DOMAIN events : events[i].src \in DOMAIN received
           /\ \A i \in DOMAIN trace :
                 /\ trace[i].how \in {"open_think", "close_think"} =>
                       \E j \in DOMAIN events :
                           IsThinking(events[j]) /\ events[j].src = i
                 /\ trace[i].how = "pass" => i \in emitted
                 /\ trace[i].how = "queue" /\ NoTransitionBetween(i, Len(trace)) =>
                       i \in emitted \cup held
           /\ Len(token_queue) < QueueLimit
           /\ \A i \in held : Cardinality({j \in queued : j > i}) < QueueLimit - 1

\* the source raised after a token was yielded, with two tokens in the queue
FailureWithholdsNothingWitness ==
    /\ pc = "raised" /\ thinking_model
    /\ Len(token_queue) = 2
    /\ TokenEvents # <<>>

\* ---------------------------------------------------------------- C19
\* C19: when the source raises mid-stream, the driver catches the failure
\* and the last event it sends is an error event.
SourceFailureReported ==
    pc = "raised" /\ received # <<>> /\ driver # "iterating" =>
        /\ driver # "failed"
        /\ sink # <<>>
        /\ sink[Len(sink)].event = "error"

\* ---------------------------------------------------------------- C21
\* what process_stream yields and returns for the chunks alone
AloneEvents(chunks, tagAware, finished) ==
    IF finished THEN ProcessStream(chunks, tagAware).events
    ELSE RunLoop(InitialLocals, <<>>, chunks, 1, tagAware).events

\* C21: under every interleaving of two invocations, the events and the
\* value of each are those of its own chunks and thinking_model alone.
InvocationsIndependent ==
    /\ events = AloneEvents(received, thinking_model, pc = "done")
    /\ pc = "done" => result = ProcessStream(received, thinking_model).result
    /\ other.events =
          AloneEvents(other.received, other.thinking_model, other.pc = "done")
    /\ other.pc = "done" =>
          other.result = ProcessStream(other.received, other.thinking_model).result

\* both invocations finished after interleaved steps, each with a token
\* flushed from its own queue, on different streams
InvocationsIndependentWitness ==
    /\ pc = "done" /\ other.pc = "done"
    /\ thinking_model /\ other.thinking_model
    /\ received # other.received
    /\ TokenEvents # <<>>
    /\ \E i \in DOMAIN other.events : IsToken(other.events[i])

\* ---------------------------------------------------------------- C22
\* json.loads of the JSON text of a str: the text between the quotes, unescaped
RECURSIVE Unescape(_, _)
Unescape(s, i) ==
    IF i > Len(s) THEN <<>>
    ELSE IF s[i] = "\\" /\ i < Len(s)
         THEN <<(IF s[i + 1] = "n" THEN "\n"
                 ELSE IF s[i + 1] = "r" THEN "\r"
                 ELSE IF s[i + 1] = "t" THEN "\t"
                 ELSE s[i + 1])>> \o Unescape(s, i + 2)
         ELSE <<s[i]>> \o Unescape(s, i + 1)

JsonLoads(s) == Unescape(SubSeq(s, 2, Len(s) - 1), 1)

\* the data of a server-sent event stays on its line
OneLine(data) == \A i \in DOMAIN data : data[i] \notin {"\n", "\r"}

PersistedIsResult ==
    driver = "finished" /\ connected /\ pc = "done" =>
        stored[Len(stored)] = result

\* ---------------------------------------------------------------- C24
\* the calls of request.is_disconnected so far: one per pass of the loop body
Checks ==
    handled + (IF ~connected /\ driver \in {"after_loop", "finished"} THEN 1 ELSE 0)

\* C24: the driver checks for cancellation between every two consecutive
\* fragments pulled from the source, whether or not they yield an event, and
\* after it has seen the disconnection it forwards no thinking or token
\* event and pulls no fragment.
CancellationCheckedPerFragment ==
    /\ Len(SelectSeq(received, HasContent)) <= Checks + 1
    /\ ~connected /\ driver \in {"after_loop", "finished"} =>
          Len(sink) = handled + (IF driver = "finished" THEN 1 ELSE 0)

\* ---------------------------------------------------------------- C25
\* chunk i was in token_queue when the transition of chunk m fired
QueuedAt(i, m) ==
    /\ i < m
    /\ trace[i].how = "queue"
    /\ NoTransitionBetween(i, m - 1)
    /\ Cardinality({j \in i + 1 .. m - 1 : trace[j].how = "queue"}) < QueueLimit - 1

\* C25: every transition empties token_queue without yielding its tokens: a
\* token that is in the queue when a transition fires is never yielded,
\* although its text was appended to page_buffer.
QueueDroppedOnTransition ==
    LET emitted == EmittedChunks IN
    /\ \A m \in DOMAIN trace :
          IsTransition(m) =>
              \A i \in 1..(m - 1) : QueuedAt(i, m) => i \notin emitted
    /\ pc = "streaming" =>
          /\ page_buffer = TextOf(received, PageChunks, 1)
          /\ trace # <<>> /\ IsTransition(Len(trace)) => token_queue = <<>>

\* a finished run that dropped a queued token and yielded others
QueueDroppedOnTransitionWitness ==
    /\ pc = "done"
    /\ TokenEvents # <<>>
    /\ \E m \in DOMAIN trace :
          /\ trace[m].how = "close_answer"
          /\ \E i \in 1..(m - 1) : QueuedAt(i, m) /\ HasContent(received[i])

\* ---------------------------------------------------------------- C26
\* the delimiter a branch acts on
DelimiterOf(how) ==
    CASE how = "open_think" -> OpenThink
      [] how = "close_think" -> CloseThink
      [] how = "open_answer" -> OpenAnswer
      [] how = "close_answer" -> CloseAnswer

\* t is s without the leftmost occurrence of d
WithoutFirst(s, d, t) ==
    \E p \in 1..Len(s) :
        /\ OccursAt(s, d, p)
        /\ \A q \in 1..(p - 1) : ~OccursAt(s, d, q)
        /\ t = SubSeq(s, 1, p - 1) \o SubSeq(s, p + Len(d), Len(s))

\* C26: a fragment that triggers a transition leaves page_buffer unchanged,
\* is not queued, removes the first occurrence of the delimiter from
\* token_buffer, flips exactly one flag, and yields one thinking event for a
\* thinking delimiter and nothing for an answer delimiter.
TransitionFrame ==
    [][received' # received
       /\ trace'[Len(trace')].how \in {"open_think", "close_think",
                                       "open_answer", "close_answer"} =>
          LET how == trace'[Len(trace')].how
              token == received'[Len(received')]
          IN /\ page_buffer' = page_buffer
             /\ token_queue' = <<>>
             /\ WithoutFirst(token_buffer \o token, DelimiterOf(how), token_buffer')
             /\ (in_thinking_section' # in_thinking_section)
                    # (in_answer_section' # in_answer_section)
             /\ (in_thinking_section' # in_thinking_section)
                    = (how \in {"open_think", "close_think"})
             /\ IF how \in {"open_think", "close_think"}
                THEN /\ Len(events') = Len(events) + 1
                     /\ IsThinking(events'[Len(events')])
                     /\ events'[Len(events')].flag = in_thinking_section'
                     /\ SubSeq(events', 1, Len(events)) = events
                ELSE events' = events]_vars

\* a transition fired with text in page_buffer and two close-thinking
\* delimiters in token_buffer
TransitionFrameWitness ==
    /\ trace # <<>> /\ trace[Len(trace)].how = "close_think"
    /\ Contains(token_buffer, CloseThink)
    /\ page_buffer # <<>>

\* ---------------------------------------------------------------- C27
\* the order of the four checks of lines 120, 127, 134, 140
Priority(d) ==
    CASE d = OpenThink -> 1
      [] d = CloseThink -> 2
      [] d = OpenAnswer -> 3
      [] d = CloseAnswer -> 4

\* the transition on d is enabled in the mode given by the two flags
EnabledIn(d, thinking, answer) ==
    CASE d = OpenThink -> ~thinking
      [] d = CloseThink -> thinking
      [] d = OpenAnswer -> ~answer
      [] d = CloseAnswer -> answer

\* the delimiters in buf whose transition is enabled
Actionable(buf, thinking, answer) ==
    {d \in Delimiters : Contains(buf, d) /\ EnabledIn(d, thinking, answer)}

\* C27: a fragment triggers at most one transition, that of the first
\* delimiter in the order open-thinking, close-thinking, open-answer,
\* close-answer among those in token_buffer that are enabled; another
\* delimiter completed by the same fragment stays in token_buffer, and a
\* delimiter left there that is enabled makes the next fragment a
\* transition fragment.
OneTransitionByPriority ==
    [][received' # received /\ thinking_model
       /\ HasContent(received'[Len(received')]) =>
          \E buf \in {token_buffer \o received'[Len(received')]} :
          \E can \in {Actionable(buf, in_thinking_section, in_answer_section)} :
          LET how == trace'[Len(trace')].how IN
          /\ Actionable(token_buffer, in_thinking_section, in_answer_section) # {}
                => can # {}
          /\ IF can = {} THEN how \in {"queue", "discard"} /\ token_buffer' = buf
             ELSE \E d \in can :
                     /\ \A e \in can : Priority(d) <= Priority(e)
                     /\ how = TransitionOf(d)
                     /\ Len(token_buffer') = Len(buf) - Len(d)
                     /\ \A e \in Delimiters \ {d} :
                           Contains(buf, e) => Contains(token_buffer', e)]_vars

\* the fragment "<answer><think>" opened thinking, and the next fragment, a
\* plain "a", was consumed by the transition on the "<answer>" left behind
OneTransitionByPriorityWitness ==
    /\ Len(trace) >= 2
    /\ received[1] = OpenAnswer \o OpenThink
    /\ trace[1].how = "open_think"
    /\ received[2] = <<"a">>
    /\ trace[2].how = "open_answer"

\* ---------------------------------------------------------------- C28
\* the last k characters of s
KeepLast(s, k) == IF Len(s) <= k THEN s ELSE SubSeq(s, Len(s) - k + 1, Len(s))

\* the loop body of the variant: as lines 117-154, then token_buffer cut to
\* its last LongestDelimiter - 1 characters unless a transition fired
TagAwareTruncating(st, token, n) ==
    LET o == IF HasContent(token) THEN TagAware(st, token, n) ELSE SkipChunk(st) IN
        IF o.how \in {"open_think", "close_think", "open_answer", "close_answer"}
        THEN o
        ELSE [o EXCEPT !.st.token_buffer = KeepLast(@, LongestDelimiter - 1)]

RECURSIVE RunTruncating(_, _, _, _)
RunTruncating(st, es, chunks, n) ==
    IF chunks = <<>> THEN [st |-> st, events |-> es]
    ELSE LET o == TagAwareTruncating(st, Head(chunks), n)
         IN RunTruncating(o.st, es \o o.yielded, Tail(chunks), n + 1)

\* C28: in tag-aware mode the variant that truncates token_buffer yields the
\* same events and returns the same value as process_stream.
TruncationPreserves ==
    thinking_model =>
        \E r \in {RunTruncating(InitialLocals, <<>>, received, 1)} :
            /\ VisibleEvents(events) =
                  VisibleEvents(r.events \o (IF pc = "done" THEN FlushQueue(r.st)
                                             ELSE <<>>))
            /\ pc = "done" => result = ReturnValue(r.st, TRUE)

\* ---------------------------------------------------------------- C29
\* C29: a chunk whose content is None or the empty string yields nothing and
\* changes none of page_buffer, token_buffer, token_queue and the two flags,
\* in both modes.
EmptyChunkSkipped ==
    [][received' # received /\ ~HasContent(received'[Len(received')]) =>
          /\ events' = events
          /\ UNCHANGED <<page_buffer, token_buffer, token_queue,
                         in_thinking_section, in_answer_section>>]_vars

\* an empty chunk arrived while a token was queued and an answer was open
EmptyChunkSkippedWitness ==
    /\ received # <<>>
    /\ ~HasContent(received[Len(received)])
    /\ token_queue # <<>>
    /\ in_answer_section

QueueEmptyWhileThinking ==
    thinking_model /\ in_thinking_section =>
        /\ token_queue = <<>>
        /\ pc = "done" /\ events # <<>> =>
              \/ IsThinking(events[Len(events)])
              \/ events[Len(events)].src < Len(received)
                    /\ \E m \in events[Len(events)].src + 1 .. Len(received) :
                           trace[m].how = "open_think"

\* the stream ended in thinking mode, opened while two tokens were queued
QueueEmptyWhileThinkingWitness ==
    /\ thinking_model /\ in_thinking_section /\ pc = "done"
    /\ \E m \in DOMAIN trace :
          /\ m > 2
          /\ trace[m].how = "open_think"
          /\ trace[m - 1].how = "queue"
          /\ trace[m - 2].how = "queue"

\* ---------------------------------------------------------------- C31
Attempts == Len(call.outcomes)

FailedAttempt(i) == Fails(call.outcomes[i], call.json_output)

\* range(max_retries) has no element when max_retries is not positive
Budget == IF call.max_retries > 0 THEN call.max_retries ELSE 0

\* C31: Agent.call invokes completion at most max_retries times (never when
\* max_retries is not positive); it returns exactly when an attempt succeeds,
\* which is then the first success and the last attempt made; a content that
\* does not parse under json_output is a failed attempt, retried like a
\* completion exception while attempts remain.
CallRetriesUntilSuccess ==
    call.pc # "idle" =>
        /\ Attempts <= Budget
        /\ \A i \in 1..Attempts - 1 : FailedAttempt(i)
        /\ call.pc = "returned" <=> Attempts > 0 /\ ~FailedAttempt(Attempts)
        /\ call.pc = "loop" => call.attempt = Attempts
        /\ \A i \in 1..Attempts :
              /\ call.outcomes[i] = "bad_json" /\ call.json_output
              /\ i < call.max_retries
              => Attempts > i \/ (call.pc = "loop" /\ call.attempt = i)

\* the call returned at its third attempt, after a completion exception and
\* after a content that did not parse
CallRetriesUntilSuccessWitness ==
    /\ call.pc = "returned"
    /\ call.json_output
    /\ call.max_retries > 3
    /\ call.outcomes = <<"exception", "bad_json", "success">>

\* ---------------------------------------------------------------- C32
AllAttemptsFailed ==
    /\ Attempts >= call.max_retries
    /\ \A i \in 1..Attempts : FailedAttempt(i)

Raising == call.pc \in {"raised", "after_loop"}

\* C32: when all max_retries attempts of Agent.call have failed the call ends
\* by raising and returns no value; call_llm answers that with HTTP 500 and
\* generate_enhanced_summary with the fallback whose summary is the last 3
\* page texts joined by newlines and whose key_events and characters are
\* empty.
ExhaustedCallRaises ==
    call.pc # "idle" /\ AllAttemptsFailed =>
        /\ call.pc # "returned"
        /\ call.pc = "loop" => call.max_retries <= 0 /\ Attempts = 0
        /\ call.response.kind # "pending" =>
              /\ Raising
              /\ call.caller = "none" => call.response = [kind |-> "exception"]
              /\ call.caller = "call_llm" => call.response = [kind |-> "http_500"]
              /\ call.caller = "generate_enhanced_summary" =>
                    LET n == Len(call.page_texts)
                        last == [i \in 1..(IF n < 3 THEN n ELSE 3) |->
                                    call.page_texts[(IF n < 3 THEN 0 ELSE n - 3) + i]]
                    IN /\ call.response.kind = "result"
                       /\ call.response.key_events = <<>>
                       /\ call.response.characters = <<>>
                       /\ call.response.summary =
                             IF Len(last) = 1 THEN last[1]
                             ELSE IF Len(last) = 2 THEN last[1] \o <<"\n">> \o last[2]
                             ELSE last[1] \o <<"\n">> \o last[2] \o <<"\n">> \o last[3]

\* generate_enhanced_summary over a book of four pages whose first and last
\* differ, all three attempts failed, one of them on unparsable content
ExhaustedCallRaisesWitness ==
    /\ call.pc = "raised"
    /\ call.caller = "generate_enhanced_summary"
    /\ Len(call.page_texts) = 4
    /\ call.page_texts[1] # call.page_texts[4]
    /\ Attempts = 3
    /\ \E i \in 1..Attempts : call.outcomes[i] = "bad_json"
    /\ call.response.kind = "result"

\* ---------------------------------------------------------------- C35
\* the texts of the tokens the driver forwarded to the client
ForwardedTokens == Texts(SelectSeq(SubSeq(events, 1, handled), IsToken))

\* the statements after the loop have run, to the final event or to an
\* exception of their own
Saved == driver = "finished" \/ (driver = "failed" /\ pc # "raised")

\* C35: after the client disconnects, the driver leaves the loop and still
\* runs the statements after it: it persists the stripped join of the tokens
\* forwarded so far (a page added or replaced for story, a message for chat
\* and regen).
CancelledStreamPersists ==
    ~connected =>
        /\ driver = "after_loop" => stored = <<>> /\ ENABLED Persist
        /\ Saved => stored = <<Strip(Concat(ForwardedTokens))>>

(***************************************************************************)
(* chat_regen_stream (server.py lines 637-693) on one stored Conversation. *)
(* `file` is the messages list in the conversation's JSON file, `messages` *)
(* the list of the Conversation object of the request.                      *)
(***************************************************************************)
MaxMessages == 3

Senders == {"user", "ai"}

MessageTexts == {<<"a">>, <<"b">>}

StoredMessages == [sender : Senders, text : MessageTexts]

Conversations == UNION {[1..n -> StoredMessages] : n \in 0..MaxMessages}

\* the user_message query parameter: absent, or a text
UserMessages == {[given |-> FALSE, text |-> <<>>],
                 [given |-> TRUE, text |-> <<>>],
                 [given |-> TRUE, text |-> <<" ", "c">>]}

\* the tokens event_gen has collected when its loop ends
AiTokens == {<<>>, << <<"r">>, <<" ">> >>}

InitRegen ==
    /\ InitClassifier
    /\ DriverIdle
    /\ OtherIdle
    /\ CallIdle
    /\ book = [pc |-> "idle"]
    /\ prompt_files = [pc |-> "idle"]
    /\ \E c \in Conversations, i \in -1..MaxMessages, r \in BOOLEAN,
          u \in UserMessages, p \in BOOLEAN :
          conv = [pc |-> "request", file |-> c, original |-> c, messages |-> c,
                  msg_index |-> i, regenerate |-> r, user_message |-> u,
                  persona_exists |-> p, ai_tokens |-> <<>>, response |-> "none"]

\* lines 648-653
IndexAccepted(messages, msg_index) ==
    /\ ~(msg_index < 0 \/ msg_index >= Len(messages))
    /\ ~(messages[msg_index + 1].sender # "user")

\* lines 655-657
EditMessage(messages, msg_index, user_message, regen) ==
    IF user_message.given /\ ~regen
    THEN [messages EXCEPT ![msg_index + 1].text = Strip(user_message.text)]
    ELSE messages

KeepTail(messages, msg_index) == messages

\* conv.messages[: msg_index + 1], line 660
Truncate(messages, msg_index) == SubSeq(messages, 1, msg_index + 1)

\* the endpoint up to its return statement: lines 643-676, 693
RegenRequest ==
    /\ conv.pc = "request"
    /\ conv' =
          IF ~IndexAccepted(conv.messages, conv.msg_index)
          THEN [conv EXCEPT !.pc = "rejected", !.response = "400"]
          ELSE LET kept == Truncate(EditMessage(conv.messages, conv.msg_index,
                                                conv.user_message, conv.regenerate),
                                    conv.msg_index)
               IN IF conv.persona_exists
                  THEN [conv EXCEPT !.messages = kept, !.file = kept,
                                    !.pc = "streaming"]
                  ELSE [conv EXCEPT !.messages = kept, !.file = kept,
                                    !.pc = "error", !.response = "500"]
    /\ UNCHANGED classifier_vars
    /\ UNCHANGED driver_vars
    /\ UNCHANGED <<other, call, book, prompt_files>>

\* Conversation.add_message, persona.py lines 102-105
AddMessage(messages, sender, text) ==
    Append(messages, [sender |-> sender, text |-> text])

\* the loop of event_gen ended: lines 688-691
RegenStreamEnds(tokens) ==
    /\ conv.pc = "streaming"
    /\ \E m \in {AddMessage(conv.messages, "ai", Strip(Concat(tokens)))} :
          conv' = [conv EXCEPT !.messages = m, !.file = m, !.ai_tokens = tokens,
                               !.pc = "done", !.response = "done"]
    /\ UNCHANGED classifier_vars
    /\ UNCHANGED driver_vars
    /\ UNCHANGED <<other, call, book, prompt_files>>

\* process_stream raised inside the loop: nothing after the loop runs
RegenStreamFails ==
    /\ conv.pc = "streaming"
    /\ conv' = [conv EXCEPT !.pc = "failed"]
    /\ UNCHANGED classifier_vars
    /\ UNCHANGED driver_vars
    /\ UNCHANGED <<other, call, book, prompt_files>>

RegenNext ==
    \/ RegenRequest
    \/ \E tokens \in AiTokens : RegenStreamEnds(tokens)
    \/ RegenStreamFails

SpecRegen == InitRegen /\ [][RegenNext]_vars

\* ---------------------------------------------------------------- C33
\* msg_index is in range of the stored conversation and points at a message
\* whose sender is "user"
ValidIndex ==
    /\ conv.msg_index >= 0
    /\ conv.msg_index < Len(conv.original)
    /\ conv.original[conv.msg_index + 1].sender = "user"

MaxCalls == 4

\* the modes the endpoints let through (server.py lines 804, 810)
Modes == {"story", "chat"}

Paths == {"STORY_PATH", "CHAT_PATH"}

\* prompts.py lines 16 and 24
PathOf(mode) == IF mode = "story" THEN "STORY_PATH" ELSE "CHAT_PATH"

\* a file is never empty after the import-time loop of lines 8-11
InitialContents == {<<"p">>, <<"q">>}

\* the content parameter of set_prompt: any string, the empty one included
Contents == InitialContents \cup {<<>>}

NotCached == [cached |-> FALSE, text |-> <<>>]

InitPrompts ==
    /\ InitClassifier
    /\ DriverIdle
    /\ OtherIdle
    /\ CallIdle
    /\ conv = [pc |-> "idle"]
    /\ book = [pc |-> "idle"]
    /\ \E f \in [Paths -> InitialContents] :
          prompt_files = [pc |-> "serving", file |-> f, initial |-> f,
                          cache |-> [p \in Paths |-> NotCached], log |-> <<>>]

\* prompts.py lines 15-21
GetPrompt(mode) ==
    /\ prompt_files.pc = "serving"
    /\ Len(prompt_files.log) < MaxCalls
    /\ LET path == PathOf(mode) IN
       IF prompt_files.cache[path].cached
       THEN prompt_files' =
               [prompt_files EXCEPT
                   !.log = Append(@, [op |-> "get", mode |-> mode,
                                      text |-> prompt_files.cache[path].text])]
       ELSE prompt_files' =
               [prompt_files EXCEPT
                   !.cache[path] = [cached |-> TRUE, text |-> prompt_files.file[path]],
                   !.log = Append(@, [op |-> "get", mode |-> mode,
                                      text |-> prompt_files.file[path]])]
    /\ UNCHANGED classifier_vars
    /\ UNCHANGED driver_vars
    /\ UNCHANGED <<other, call, conv, book>>

SetPromptSkipsCache(mode, content) ==
    /\ prompt_files.pc = "serving"
    /\ Len(prompt_files.log) < MaxCalls
    /\ prompt_files' =
          [prompt_files EXCEPT
              !.file[PathOf(mode)] = content,
              !.log = Append(@, [op |-> "set", mode |-> mode, text |-> content])]
    /\ UNCHANGED classifier_vars
    /\ UNCHANGED driver_vars
    /\ UNCHANGED <<other, call, conv, book>>

\* prompts.py lines 23-26
SetPrompt(mode, content) ==
    /\ prompt_files.pc = "serving"
    /\ Len(prompt_files.log) < MaxCalls
    /\ prompt_files' =
          [prompt_files EXCEPT
              !.file[PathOf(mode)] = content,
              !.cache[PathOf(mode)] = [cached |-> TRUE, text |-> content],
              !.log = Append(@, [op |-> "set", mode |-> mode, text |-> content])]
    /\ UNCHANGED classifier_vars
    /\ UNCHANGED driver_vars
    /\ UNCHANGED <<other, call, conv, book>>

PromptsNext ==
    \/ \E mode \in Modes : GetPrompt(mode)
    \/ \E mode \in Modes, content \in Contents : SetPrompt(mode, content)

SpecPrompts == InitPrompts /\ [][PromptsNext]_vars

\* ---------------------------------------------------------------- C36
\* the calls before call k that set the prompt of the mode
SetsBefore(k, mode) ==
    {j \in 1..k - 1 : /\ prompt_files.log[j].op = "set"
                      /\ prompt_files.log[j].mode = mode}

Latest(S) == CHOOSE j \in S : \A i \in S : i <= j

\* C36: every get_prompt(mode) returns the content of the most recent
\* set_prompt for that mode, or the initial content of the mode's file when
\* there was none; hence a set_prompt for the other mode does not change it,
\* and two get_prompt calls with no set_prompt for the mode between them
\* return the same value.
GetReturnsLatestSet ==
    prompt_files.pc # "idle" =>
        LET log == prompt_files.log IN
        /\ \A k \in DOMAIN log :
              log[k].op = "get" =>
                 log[k].text =
                    IF SetsBefore(k, log[k].mode) = {}
                    THEN prompt_files.initial[PathOf(log[k].mode)]
                    ELSE log[Latest(SetsBefore(k, log[k].mode))].text
        /\ \A j, k \in DOMAIN log :
              /\ j < k
              /\ log[j].op = "get" /\ log[k].op = "get"
              /\ log[j].mode = log[k].mode
              /\ \A i \in j + 1..k - 1 :
                    log[i].op = "set" => log[i].mode # log[j].mode
              => log[j].text = log[k].text

\* the story prompt was read, set to another text, the chat prompt was set,
\* and the story prompt read again
GetReturnsLatestSetWitness ==
    /\ prompt_files.pc = "serving"
    /\ Len(prompt_files.log) = 4
    /\ LET log == prompt_files.log IN
       /\ log[1].op = "get" /\ log[1].mode = "story"
       /\ log[2].op = "set" /\ log[2].mode = "story" /\ log[2].text # log[1].text
       /\ log[3].op = "set" /\ log[3].mode = "chat" /\ log[3].text # log[2].text
       /\ log[4].op = "get" /\ log[4].mode = "story" /\ log[4].text = log[2].text

(***************************************************************************)
(* One Book (book.py): `info` is book_info of the Book object, `file` the  *)
(* JSON file _save_data writes.  Every request works on the one object;    *)
(* `log` records each operation with the book before and after it, `story` *)
(* the statements after the loop of story_stream_endpoint.event_gen.       *)
(***************************************************************************)
MaxStoredPages == 2   \* pages of the book when the first request arrives
MaxOps == 2           \* requests on the book

\* an Optional[str] argument
None == [given |-> FALSE, text |-> <<>>]
Some(text) == [given |-> TRUE, text |-> text]

\* `value or ""`
OrEmpty(optional) == IF optional.given THEN optional.text ELSE <<>>

ChoiceLists == {<<>>, <<"x", "y">>}

\* the prompt and choice_used arguments, passed together
PageArgs == {[prompt |-> None, choice_used |-> None],
             [prompt |-> Some(<<"p">>), choice_used |-> Some(<<"c">>)]}

NewText == <<"n">>

Titles == {<<"t">>}

StoredPage(text) ==
    [text |-> text, choices |-> <<"x">>, prompt |-> <<"o">>, choice_used |-> <<>>]

StoredBooks ==
    UNION {[1..n -> {StoredPage(t) : t \in PageTexts}] : n \in 0..MaxStoredPages}

NoStory == [phase |-> "none"]

\* Book(id): the file is loaded as it is, so num_pages is whatever it holds
InitBook ==
    /\ InitClassifier
    /\ DriverIdle
    /\ OtherIdle
    /\ CallIdle
    /\ conv = [pc |-> "idle"]
    /\ prompt_files = [pc |-> "idle"]
    /\ \E pages \in StoredBooks, n \in 0..MaxStoredPages :
          /\ n \in {0, Len(pages)}
          /\ book = [pc |-> "ready",
                     info |-> [pages |-> pages, num_pages |-> n, title |-> <<>>],
                     file |-> [pages |-> pages, num_pages |-> n, title |-> <<>>],
                     ops |-> 0, log |-> <<>>, story |-> NoStory]

SaveDataKeepsCount(b) == [b EXCEPT !.file = b.info]

\* _save_data, lines 65-80 (updated_at and the file name are not modelled)
SaveData(b) ==
    LET info == [b.info EXCEPT !.num_pages = Len(b.info.pages)]
    IN [b EXCEPT !.info = info, !.file = info]

\* add_page, lines 99-108
AddPage(b, page, choices, prompt, choice_used) ==
    LET page_data == [text |-> page, choices |-> choices,
                      prompt |-> OrEmpty(prompt),
                      choice_used |-> OrEmpty(choice_used)]
        pages == Append(b.info.pages, page_data)
    IN SaveData([b EXCEPT !.info.pages = pages, !.info.num_pages = Len(pages)])

\* replace_last_page, lines 254-270
ReplaceLastPage(b, page, choices, prompt, choice_used) ==
    IF b.info.pages = <<>>
    THEN AddPage(b, page, choices, prompt, choice_used)
    ELSE LET last_page == b.info.pages[Len(b.info.pages)]
             replaced == [text |-> page, choices |-> choices,
                          prompt |-> IF prompt.given THEN prompt.text
                                     ELSE last_page.prompt,
                          choice_used |-> IF choice_used.given THEN choice_used.text
                                          ELSE last_page.choice_used]
         IN SaveData([b EXCEPT !.info.pages[Len(b.info.pages)] = replaced])

\* the test of update_page_text, line 225
OutOfRange(b, index) == index < 0 \/ index >= Len(b.info.pages)

\* update_page_text past its test, lines 227-232
UpdatePageText(b, index, new_text) ==
    SaveData([b EXCEPT !.info.pages[index + 1].text = new_text])

\* set_title, lines 113-121; the other setters differ in the field only
SetTitle(b, title) == SaveData([b EXCEPT !.info.title = title])

Ready == book.pc = "ready" /\ book.ops < MaxOps

Frame ==
    /\ UNCHANGED classifier_vars
    /\ UNCHANGED driver_vars
    /\ UNCHANGED <<other, call, conv, prompt_files>>

\* the operation `op` with argument `arg` took the book to b, or raised
Logged(b, op, arg, raised) ==
    [b EXCEPT !.log = Append(@, [op |-> op, arg |-> arg, raised |-> raised,
                                 before |-> [info |-> book.info, file |-> book.file],
                                 after |-> [info |-> b.info, file |-> b.file]])]

Request(b) == [b EXCEPT !.ops = @ + 1]

AddPageCall(choices, args) ==
    /\ Ready
    /\ book' = Request(Logged(AddPage(book, NewText, choices, args.prompt,
                                      args.choice_used),
                              "add_page", 0, "none"))
    /\ Frame

ReplaceLastPageCall(choices, args) ==
    /\ Ready
    /\ book' = Request(Logged(ReplaceLastPage(book, NewText, choices, args.prompt,
                                              args.choice_used),
                              "replace_last_page", 0, "none"))
    /\ Frame

UpdatePageTextCall(index) ==
    /\ Ready
    /\ book' = IF OutOfRange(book, index)
               THEN Request(Logged(book, "update_page_text", index, "IndexError"))
               ELSE Request(Logged(UpdatePageText(book, index, NewText),
                                   "update_page_text", index, "none"))
    /\ Frame

SetTitleCall(title) ==
    /\ Ready
    /\ book' = Request(Logged(SetTitle(book, title), "set_title", 0, "none"))
    /\ Frame

\* event_gen of story_stream_endpoint has left its loop with the page text
StoryLoopEnds(regen) ==
    /\ Ready
    /\ book' = [Request(book) EXCEPT
                   !.pc = "after_loop",
                   !.story = [phase |-> "after_loop", regenerate |-> regen,
                              request |-> book.ops + 1,
                              before |-> book.info.pages]]
    /\ Frame

\* server.py lines 302-307.  Book has no attribute `pages`, so the test of
\* line 304 raises AttributeError whenever regenerate is true
StorySavePlaceholder ==
    /\ book.pc = "after_loop"
    /\ book' = IF book.story.regenerate
               THEN [book EXCEPT !.pc = "ready",
                                 !.story.phase = "AttributeError"]
               ELSE [Logged(AddPage(book, NewText, <<>>, Some(<<"p">>),
                                    Some(<<"c">>)),
                            "add_page", 0, "none")
                        EXCEPT !.pc = "placeholder_saved",
                               !.story.phase = "placeholder_saved"]
    /\ Frame

\* server.py lines 310-315: the choices are generated and saved
StorySaveChoices ==
    /\ book.pc = "placeholder_saved"
    /\ book' = [Logged(ReplaceLastPage(book, NewText, <<"x", "y">>, Some(<<"p">>),
                                       Some(<<"c">>)),
                       "replace_last_page", 0, "none")
                   EXCEPT !.pc = "ready", !.story.phase = "done"]
    /\ Frame

\* server.py line 310: _generate_choices raises
StoryChoicesFail ==
    /\ book.pc = "placeholder_saved"
    /\ book' = [book EXCEPT !.pc = "ready", !.story.phase = "choices_failed"]
    /\ Frame

BookNext ==
    \/ \E choices \in ChoiceLists, args \in PageArgs : AddPageCall(choices, args)
    \/ \E choices \in ChoiceLists, args \in PageArgs : ReplaceLastPageCall(choices, args)
    \/ \E index \in -1..MaxStoredPages + MaxOps : UpdatePageTextCall(index)
    \/ \E title \in Titles : SetTitleCall(title)
    \/ \E regen \in BOOLEAN : StoryLoopEnds(regen)
    \/ StorySavePlaceholder
    \/ StorySaveChoices
    \/ StoryChoicesFail

SpecBook == InitBook /\ [][BookNext]_vars

\* ---------------------------------------------------------------- C38
SavingOperations == {"add_page", "replace_last_page", "update_page_text", "set_title"}

\* C38: after every Book operation that saves, num_pages equals the number
\* of pages, in the object and in the file saved; update_page_text with an
\* index out of range raises IndexError, leaves the pages as they were and
\* saves nothing.
NumPagesIsLength ==
    book.pc # "idle" =>
        \A k \in DOMAIN book.log :
           LET e == book.log[k] IN
           /\ e.op = "update_page_text" =>
                 (e.raised = "IndexError"
                    <=> e.arg < 0 \/ e.arg >= Len(e.before.info.pages))
           /\ e.raised = "IndexError" => e.after = e.before
           /\ e.op \in SavingOperations /\ e.raised = "none" =>
                 /\ e.after.info.num_pages = Len(e.after.info.pages)
                 /\ e.after.file = e.after.info

\* a setter corrected a stale num_pages of a loaded book, and then an
\* update_page_text one past the last page raised
NumPagesIsLengthWitness ==
    /\ book.pc = "ready"
    /\ Len(book.log) = 2
    /\ book.log[1].op = "set_title"
    /\ book.log[1].before.info.num_pages # Len(book.log[1].before.info.pages)
    /\ book.log[2].op = "update_page_text"
    /\ book.log[2].arg = Len(book.info.pages)
    /\ book.log[2].raised = "IndexError"

\* ---------------------------------------------------------------- C34
\* C34: when a story stream has completed, the book has one page more than
\* before if regenerate is false or the book had no pages, and as many as
\* before otherwise; the pages before the last are unchanged and the last
\* page holds the streamed text and the generated choices.
StoryWritesLastPage ==
    /\ book.pc = "ready"
    /\ book.story.phase \in {"done", "AttributeError"}
    /\ book.story.request = book.ops
    =>  LET before == book.story.before
            now == book.info.pages
            grows == ~book.story.regenerate \/ before = <<>>
        IN /\ Len(now) = Len(before) + (IF grows THEN 1 ELSE 0)
           /\ \A k \in 1..Len(now) - 1 : now[k] = before[k]
           /\ now # <<>>
           /\ now[Len(now)].text = NewText
           /\ now[Len(now)].choices = <<"x", "y">>
====
